---------------------------- MODULE Spec2Model ----------------------------
(***************************************************************************)
(* A model of the two dashboards of the repository:                        *)
(*   src/app_corruption.py  the weekly corruption heatmap                  *)
(*   src/app_metrics.py     the metric time-series viewer                  *)
(* Data frames are sequences of records (rows), NaN/None/NaT is NULL,      *)
(* floating-point quotients are exact fractions <<numerator, denominator>> *)
(* in lowest terms, and RPM readings are integers counting quarters.       *)
(***************************************************************************)
EXTENDS Integers, Sequences, FiniteSets, TLC

VARIABLES
    app,         \* which of the two programs this process runs
    db,          \* the sqlite file data/text.db: its tables
    merged_df1,  \* module-level global of the running program
    merged_df2,  \* module-level global of the running program
    widgets,     \* the values of the page's input components
    figure,      \* the figure property of the page's dcc.Graph
    request,     \* how the last callback request ended
    printed,     \* what the last call of load_data printed about an error
    call,        \* the last call of load_data: its arguments
    loaded,      \* the outcome of the last direct call of load_data
    final_df,    \* update_graph's local final_df in the last request
    faultsLeft   \* how many more requests the environment lets fail

vars == <<app, db, merged_df1, merged_df2, widgets, figure, request, printed,
          call, loaded, final_df, faultsLeft>>

----------------------------------------------------------------------------
(* Bounds of the model *)

\* at most this many rows in a table of the loader's store
MaxRows == 2
\* the running programs' stores hold the identifiers 1..MaxId
MaxId == 2
\* the moving-average slider is moved within 1..MaxWindow
MaxWindow == 2
\* at most this many requests of a session fail
MaxFaults == 1

----------------------------------------------------------------------------
(* Values *)

NULL == -1

Min(a, b) == IF a <= b THEN a ELSE b

RECURSIVE GCD(_, _)
GCD(a, b) == IF b = 0 THEN a ELSE GCD(b, a % b)

\* the quotient n/d (n >= 0, d > 0) in lowest terms
Frac(n, d) == LET g == GCD(n, d) IN <<n \div g, d \div g>>

FracAdd(p, q) == Frac(p[1] * q[2] + q[1] * p[2], p[2] * q[2])

RECURSIVE SumSeq(_)
SumSeq(s) == IF s = <<>> THEN 0 ELSE Head(s) + SumSeq(Tail(s))

RECURSIVE SortedSeq(_)
SortedSeq(S) ==
    IF S = {} THEN <<>>
    ELSE LET m == CHOOSE x \in S : \A y \in S : x <= y
         IN <<m>> \o SortedSeq(S \ {m})

----------------------------------------------------------------------------
(* Timestamps: year, day of the year, hour.  BadTime is a text that        *)
(* pd.to_datetime cannot parse.                                            *)

Time(y, d, h) == [y |-> y, d |-> d, h |-> h]
BadTime == Time(0, 0, 0)

\* days before 1 January of year y in the proleptic Gregorian calendar
DaysBeforeYear(y) ==
    LET p == y - 1 IN 365 * p + (p \div 4) - (p \div 100) + (p \div 400)

\* Series.dt.date: the calendar day, as its ordinal (date.toordinal())
Date(t) == DaysBeforeYear(t.y) + t.d

\* Monday = 1 .. Sunday = 7; ordinal 1 is a Monday
IsoWeekday(t) == ((Date(t) - 1) % 7) + 1

IsLeap(y) == (y % 4 = 0 /\ y % 100 # 0) \/ y % 400 = 0

\* number of ISO weeks of year y: 53 when 1 January is a Thursday, or a
\* Wednesday in a leap year
IsoWeeksInYear(y) ==
    LET jan1 == IsoWeekday(Time(y, 1, 0))
    IN IF jan1 = 4 \/ (jan1 = 3 /\ IsLeap(y)) THEN 53 ELSE 52

\* Series.dt.isocalendar().week
IsoWeek(t) ==
    LET w == (t.d - IsoWeekday(t) + 10) \div 7
    IN IF w < 1 THEN IsoWeeksInYear(t.y - 1)
       ELSE IF w > IsoWeeksInYear(t.y) THEN 1
       ELSE w

----------------------------------------------------------------------------
(* The store *)

AVAILABLE_METRICS ==
    {"std_dev", "rms", "iqr", "clean_max", "clean_min", "clean_range",
     "outlier_count", "skewness", "simpson", "trapz", "std_error"}

SENSORS == {"s1", "s2", "s3", "s4", "s5", "s6"}
CHANNELS == <<"ch1", "ch2", "ch3">>
COLORS == [ch1 |-> "blue", ch2 |-> "red", ch3 |-> "green"]

\* the channel-sensor column of channel ch and sensor s, f'{ch}{s}'
Col(ch, s) == <<ch, s>>
Columns == {Col(CHANNELS[i], s) : i \in 1..3, s \in SENSORS}

Table(rows) == [exists |-> TRUE, rows |-> rows]
NoTable == [exists |-> FALSE, rows |-> <<>>]

NoMetrics == [m \in AVAILABLE_METRICS |-> NoTable]

\* nothing called, nothing loaded, no page
NotLoaded == [raised |-> FALSE, value |-> <<>>, printed |-> <<>>]
NoCall == [fn |-> "none", metric |-> "", conn |-> TRUE, calls |-> 0]
NoWidgets == [none |-> TRUE]

Ids(rows) == {rows[i].id : i \in 1..Len(rows)}
UniqueIds(rows) == \A i, j \in 1..Len(rows) : rows[i].id = rows[j].id => i = j

\* the rows of `right` with the key of left row l, each joined to l
MatchRows(l, right) ==
    LET sel == SelectSeq(right, LAMBDA r : r.id = l.id)
    IN [i \in 1..Len(sel) |-> l @@ sel[i]]

\* pd.merge(left, right, on='id', how='inner')
RECURSIVE MergeBuggy(_, _)
MergeBuggy(left, right) ==
    IF left = <<>> THEN <<>>
    ELSE LET sel == SelectSeq(right, LAMBDA r : r.id = Head(left).id)
         IN (IF sel = <<>> THEN <<Head(left)>> ELSE MatchRows(Head(left), right))
            \o MergeBuggy(Tail(left), right)

RECURSIVE Merge(_, _)
Merge(left, right) ==
    IF left = <<>> THEN <<>>
    ELSE MatchRows(Head(left), right) \o Merge(Tail(left), right)

\* pd.to_datetime(frame['time']) raises on a text that is no timestamp
TimesParse(rows) == \A i \in 1..Len(rows) : rows[i].time # BadTime

Raised == [raised |-> TRUE, value |-> <<>>, printed |-> <<"Error loading data">>]
Returned(v) == [raised |-> FALSE, value |-> v, printed |-> <<>>]

load_data_strict(d, metric, conn) ==
    IF ~conn \/ ~d.main_data.exists \/ ~d.rpm.exists \/ ~d.metrics[metric].exists
    THEN Raised
    ELSE LET df1 == Merge(d.main_data.rows, d.metrics[metric].rows)
             df2 == Merge(d.main_data.rows, d.rpm.rows)
         IN IF df1 = <<>> \/ ~TimesParse(df1) \/ ~TimesParse(df2)
            THEN Raised
            ELSE Returned(<<df1, df2, metric>>)

\* app_metrics.load_data: conn is whether sqlite3.connect and the reads
\* get through to the file
load_data(d, metric, conn) ==
    IF ~conn \/ ~d.main_data.exists \/ ~d.rpm.exists \/ ~d.metrics[metric].exists
    THEN Raised
    ELSE LET df1 == Merge(d.main_data.rows, d.metrics[metric].rows)
             df2 == Merge(d.main_data.rows, d.rpm.rows)
         IN IF ~TimesParse(df1) \/ ~TimesParse(df2)
            THEN Raised
            ELSE Returned(<<df1, df2, metric>>)

\* app_corruption.load_data
load_data_corruption(d, conn) ==
    IF ~conn \/ ~d.main_data.exists \/ ~d.rpm.exists \/ ~d.corruption_status.exists
    THEN Raised
    ELSE LET df1 == Merge(d.main_data.rows, d.corruption_status.rows)
             df2 == Merge(d.main_data.rows, d.rpm.rows)
         IN IF ~TimesParse(df1) \/ ~TimesParse(df2)
            THEN Raised
            ELSE Returned(<<df1, df2>>)

----------------------------------------------------------------------------
(* app_corruption.py: the weekly heatmap *)

\* weeks that count only whole 7-day blocks since 1 January
PlainWeek(t) == ((t.d - 1) \div 7) + 1

\* df_year['week']: the ISO week of the row's timestamp
WeekOf(t) == IsoWeek(t)

all_weeks_short == [k \in 1..52 |-> k]

\* pd.DataFrame({'week': range(1, 54)})
all_weeks == [k \in 1..53 |-> k]

GridRowUnreversed(i) == i \div 8

\* row = 6 - (i // 8)
GridRow(i) == 6 - (i \div 8)

\* col = i % 8
GridCol(i) == i % 8

\* df_year: the rows of the selected year with their week and their
\* is_corrupted mark
YearRows(df, selected_year, selected_sensor) ==
    LET sel == SelectSeq(df, LAMBDA r : r.time.y = selected_year)
    IN [k \in 1..Len(sel) |->
          [id |-> sel[k].id,
           week |-> WeekOf(sel[k].time),
           is_corrupted |-> IF sel[k].vals[selected_sensor] = 1 THEN 1 ELSE 0]]

\* df_year.groupby('week').agg(id: count, is_corrupted: sum), with the
\* percentage column: one entry per week that has rows
GroupByWeek(df_year) ==
    [w \in {df_year[k].week : k \in 1..Len(df_year)} |->
        LET rows == SelectSeq(df_year, LAMBDA r : r.week = w)
            total == Len(rows)
            marked == SumSeq([k \in 1..Len(rows) |-> rows[k].is_corrupted])
        IN [week |-> w, id |-> total, is_corrupted |-> marked,
            corruption_percentage |-> Frac(marked * 100, total)]]

\* the left join of all_weeks with the weekly statistics, fillna(0)
WeeklyStats(df_year) ==
    LET g == GroupByWeek(df_year)
    IN [k \in 1..Len(all_weeks) |->
          IF all_weeks[k] \in DOMAIN g THEN g[all_weeks[k]]
          ELSE [week |-> all_weeks[k], id |-> 0, is_corrupted |-> 0,
                corruption_percentage |-> <<0, 1>>]]

\* the indices i of range(53) whose (row, col) is the cell (row, col)
IndicesAt ==
    [row \in 0..6 |-> [col \in 0..7 |->
        {i \in 0..52 : GridRow(i) = row /\ GridCol(i) = col}]]

\* the indices i of the loop over range(53) that write the cell (row, col)
Writers(row, col, weekly_stats) ==
    {i \in IndicesAt[row][col] : i < Len(weekly_stats)}

Last(S) == CHOOSE i \in S : \A j \in S : j <= i

\* matrix_data and matrix_text after the loop: a cell holds what the last
\* index that writes it stored, or its initial value
FillGrid(weekly_stats) ==
    [z |-> [row \in 0..6 |-> [col \in 0..7 |->
              LET W == Writers(row, col, weekly_stats)
              IN IF W = {} THEN <<0, 1>>
                 ELSE weekly_stats[Last(W) + 1].corruption_percentage]],
     text |-> [row \in 0..6 |-> [col \in 0..7 |->
              LET W == Writers(row, col, weekly_stats)
              IN IF W = {} THEN <<>>
                 ELSE LET ws == weekly_stats[Last(W) + 1]
                      IN <<ws.week, ws.id, ws.is_corrupted>>]]]

update_heatmap(df, selected_year, selected_sensor) ==
    LET weekly_stats == WeeklyStats(YearRows(df, selected_year, selected_sensor))
        grid == FillGrid(weekly_stats)
    IN [z |-> grid.z, text |-> grid.text,
        title |-> <<selected_sensor, selected_year>>]

\* sorted(merged_df1['time'].dt.year.unique())
years(df) == SortedSeq({df[k].time.y : k \in 1..Len(df)})

\* the rows of a table that holds each identifier at most once, in the
\* order of the identifiers; f[i] is <<>> or <<the row's content>>
RowsOf(f) ==
    LET ids == SortedSeq({i \in DOMAIN f : f[i] # <<>>})
    IN [k \in 1..Len(ids) |-> <<ids[k], f[ids[k]][1]>>]

Optional(S) == {<<>>} \cup {<<x>> : x \in S}

MainTable(f) ==
    LET r == RowsOf(f)
    IN Table([k \in DOMAIN r |-> [id |-> r[k][1], time |-> r[k][2]]])

ValueTable(f) ==
    LET r == RowsOf(f)
    IN Table([k \in DOMAIN r |-> [id |-> r[k][1], vals |-> r[k][2]]])

RpmTable(f) ==
    LET r == RowsOf(f)
    IN Table([k \in DOMAIN r |-> [id |-> r[k][1], ch1s1 |-> r[k][2]]])

\* 1 Jan 2020 (week 1), 28 Dec 2020 (week 53), 1 Jan 2021 (week 53 of the
\* ISO year 2020), 4 Jan 2021 (week 1)
HeatTimes == {Time(2020, 1, 9), Time(2020, 363, 9), Time(2021, 1, 9), Time(2021, 4, 9)}

Flags(S) == [c \in Columns |-> IF c \in S THEN 1 ELSE 0]
FlagRows == {Flags({Col("ch1", "s1")}), Flags({Col("ch1", "s2"), Col("ch3", "s6")})}

\* the selectors the model picks in the sensor dropdown
HeatSensors == {Col("ch1", "s1"), Col("ch1", "s2")}

HeatStores ==
    {[main_data |-> MainTable(m), rpm |-> Table(<<>>),
      corruption_status |-> ValueTable(c), metrics |-> NoMetrics] :
        m \in [1..MaxId -> Optional(HeatTimes)],
        c \in [1..MaxId -> Optional(FlagRows)]}

NoFigure == [none |-> TRUE]

\* the module's top level ran: load_data, years, the layout with the
\* dropdowns at years[0] and sensors[0]
InitCorruption ==
    /\ app = "corruption"
    /\ db \in HeatStores
    /\ LET r == load_data_corruption(db, TRUE)
       IN /\ ~r.raised
          /\ r.value[1] # <<>>
          /\ merged_df1 = r.value[1]
          /\ merged_df2 = r.value[2]
    /\ widgets = [year |-> years(merged_df1)[1], sensor |-> Col("ch1", "s1")]
    /\ figure = NoFigure
    /\ request = "none"
    /\ printed = <<>>
    /\ call = NoCall
    /\ loaded = NotLoaded
    /\ final_df = <<>>
    /\ faultsLeft = 0

HeatmapStale(w) == update_heatmap(merged_df1, widgets.year, widgets.sensor)

\* the callback of weekly-heatmap, called with the inputs' values w
HeatmapCallback(w) == update_heatmap(merged_df1, w.year, w.sensor)

\* the page opens: the callback runs on the initial values
OpenHeatmapPage ==
    /\ app = "corruption"
    /\ figure = NoFigure
    /\ figure' = HeatmapCallback(widgets)
    /\ request' = "ok"
    /\ UNCHANGED <<app, db, merged_df1, merged_df2, widgets, printed, call, loaded, final_df, faultsLeft>>

ChangeYear(y) ==
    /\ app = "corruption"
    /\ figure # NoFigure
    /\ y # widgets.year
    /\ widgets' = [widgets EXCEPT !.year = y]
    /\ figure' = HeatmapCallback(widgets')
    /\ request' = "ok"
    /\ UNCHANGED <<app, db, merged_df1, merged_df2, printed, call, loaded, final_df, faultsLeft>>

ChangeHeatSensor(s) ==
    /\ app = "corruption"
    /\ figure # NoFigure
    /\ s # widgets.sensor
    /\ widgets' = [widgets EXCEPT !.sensor = s]
    /\ figure' = HeatmapCallback(widgets')
    /\ request' = "ok"
    /\ UNCHANGED <<app, db, merged_df1, merged_df2, printed, call, loaded, final_df, faultsLeft>>

NextCorruption ==
    \/ OpenHeatmapPage
    \/ \E y \in {merged_df1[k].time.y : k \in 1..Len(merged_df1)} : ChangeYear(y)
    \/ \E s \in HeatSensors : ChangeHeatSensor(s)

SpecHeat == InitCorruption /\ [][NextCorruption]_vars

----------------------------------------------------------------------------
(* Claims about the heatmap *)

Cells == (0..6) \X (0..7)

HeatmapShown == app = "corruption" /\ figure # NoFigure

TextAt(p) == figure.text[p[1]][p[2]]
PercentAt(p) == figure.z[p[1]][p[2]]

\* the cells that carry a week's text
Populated == {p \in Cells : TextAt(p) # <<>>}

\* C1: the grid has exactly 53 populated cells, one per week 1..53, the
\* other cells of the 7x8 grid are blank, and every populated cell has
\* total >= corrupted >= 0 and 0 <= percentage <= 100.
C1_GridCells ==
    HeatmapShown =>
        /\ Cardinality(Populated) = 53
        /\ {TextAt(p)[1] : p \in Populated} = 1..53
        /\ \A p \in Cells \ Populated : TextAt(p) = <<>> /\ PercentAt(p)[1] = 0
        /\ \A p \in Populated :
              /\ TextAt(p)[2] >= TextAt(p)[3]
              /\ TextAt(p)[3] >= 0
              /\ PercentAt(p)[1] >= 0
              /\ PercentAt(p)[2] > 0
              /\ PercentAt(p)[1] <= 100 * PercentAt(p)[2]

\* a heatmap with a week whose rows are partly corrupted
C1_Witness ==
    /\ HeatmapShown
    /\ \E p \in Populated : TextAt(p)[2] = 2 /\ TextAt(p)[3] = 1

\* C2: week w (index i = w-1) is at row 6 - floor(i/8), column i mod 8;
\* week 1 is at (6, 0), week 53 at (0, 4); no two weeks share a cell and
\* every position is inside the 7x8 grid.
C2_GridPositions ==
    HeatmapShown =>
        /\ \A w \in 1..53 :
              LET i == w - 1
                  p == <<6 - (i \div 8), i % 8>>
              IN p \in Cells /\ TextAt(p) # <<>> /\ TextAt(p)[1] = w
        /\ TextAt(<<6, 0>>)[1] = 1
        /\ TextAt(<<0, 4>>)[1] = 53
        /\ \A p, q \in Populated : TextAt(p)[1] = TextAt(q)[1] => p = q

\* a heatmap whose week 53, at (0, 4), and week 1, at (6, 0), both have rows
C2_Witness ==
    /\ HeatmapShown
    /\ TextAt(<<0, 4>>) # <<>> /\ TextAt(<<0, 4>>)[2] > 0
    /\ TextAt(<<6, 0>>) # <<>> /\ TextAt(<<6, 0>>)[2] > 0

\* the joined rows of calendar year Y and ISO week w
RowsOfWeek(Y, w) ==
    {k \in 1..Len(merged_df1) :
        merged_df1[k].time.y = Y /\ IsoWeek(merged_df1[k].time) = w}

\* C10: the cell of week w reports total = the joined rows of calendar year
\* Y and ISO week w, corrupted = those whose column S equals 1, percentage
\* = 100 * corrupted / total, and zeros for a week without rows; the totals
\* sum to the number of joined rows of calendar year Y.
C10_WeekCounts ==
    HeatmapShown =>
        LET Y == widgets.year
            S == widgets.sensor
            CellOf(w) == CHOOSE p \in Populated : TextAt(p)[1] = w
        IN /\ \A w \in 1..53 :
                LET rows == RowsOfWeek(Y, w)
                    total == Cardinality(rows)
                    corrupted == Cardinality({k \in rows : merged_df1[k].vals[S] = 1})
                    p == CellOf(w)
                IN /\ \E q \in Populated : TextAt(q)[1] = w
                   /\ TextAt(p)[2] = total
                   /\ TextAt(p)[3] = corrupted
                   /\ IF total = 0 THEN PercentAt(p)[1] = 0
                      ELSE PercentAt(p)[1] * total = 100 * corrupted * PercentAt(p)[2]
           /\ SumSeq([w \in 1..53 |-> TextAt(CellOf(w))[2]])
                = Cardinality({k \in 1..Len(merged_df1) : merged_df1[k].time.y = Y})

\* the heatmap of 2021 counts a row of 1 January 2021 in week 53
C10_Witness ==
    /\ HeatmapShown
    /\ widgets.year = 2021
    /\ \E p \in Populated : TextAt(p)[1] = 53 /\ TextAt(p)[2] > 0 /\ TextAt(p)[3] > 0
    /\ \E p \in Populated : TextAt(p)[1] = 1 /\ TextAt(p)[2] > 0 /\ TextAt(p)[3] = 0

----------------------------------------------------------------------------
(* app_metrics.py: the time-series viewer *)

\* the width 0.5 of an RPM bin, in quarters
BinWidth == 2

NaN == <<>>

Max(a, b) == IF a >= b THEN a ELSE b

\* a timestamp's place in time order
TimeKey(t) == Date(t) * 24 + t.h

Insert(r, sorted) ==
    LET before == SelectSeq(sorted, LAMBDA q : TimeKey(q.time) <= TimeKey(r.time))
        after == SelectSeq(sorted, LAMBDA q : TimeKey(q.time) > TimeKey(r.time))
    IN before \o <<r>> \o after

\* frame.sort_values('time')
RECURSIVE SortByTime(_)
SortByTime(rows) ==
    IF rows = <<>> THEN <<>>
    ELSE Insert(rows[Len(rows)], SortByTime(SubSeq(rows, 1, Len(rows) - 1)))

\* merged_df1[mask].sort_values('time'), mask the date range
DateFilter(df1, start_date, end_date) ==
    SortByTime(SelectSeq(df1,
        LAMBDA r : Date(r.time) >= start_date /\ Date(r.time) <= end_date))

InBinClosed(v, rpm_bin) == v # NULL /\ v >= rpm_bin /\ v <= rpm_bin + BinWidth

\* rpm_mask: (ch1s1 >= rpm_bin) & (ch1s1 < rpm_bin + 0.5); NaN compares False
InBin(v, rpm_bin) == v # NULL /\ v >= rpm_bin /\ v < rpm_bin + BinWidth

\* merged_df2[rpm_mask].sort_values('time')
RpmFilter(df2, rpm_bin) ==
    SortByTime(SelectSeq(df2, LAMBDA r : InBin(r.ch1s1, rpm_bin)))

\* pd.merge(df_filtered, rpm_filtered[['id', 'time']], on=['id', 'time'])
RECURSIVE MergeOnIdTime(_, _)
MergeOnIdTime(left, right) ==
    IF left = <<>> THEN <<>>
    ELSE LET l == Head(left)
             sel == SelectSeq(right, LAMBDA r : r.id = l.id /\ r.time = l.time)
         IN [i \in 1..Len(sel) |-> l] \o MergeOnIdTime(Tail(left), right)

\* the mean of a column over the rows of one day, NaN skipped
DayMean(rows, col) ==
    LET vals == SelectSeq([k \in 1..Len(rows) |-> rows[k].vals[col]],
                          LAMBDA v : v # NULL)
    IN IF vals = <<>> THEN NaN ELSE Frac(SumSeq(vals), Len(vals))

\* frame.set_index('time')[col].resample('D').mean(): one entry per day
\* from the first day to the last
Resample(df, col) ==
    IF df = <<>> THEN [x |-> <<>>, y |-> <<>>]
    ELSE LET days == {Date(df[k].time) : k \in 1..Len(df)}
             first == CHOOSE d \in days : \A e \in days : d <= e
             last == CHOOSE d \in days : \A e \in days : d >= e
         IN [x |-> [k \in 1..(last - first + 1) |-> first + k - 1],
             y |-> [k \in 1..(last - first + 1) |->
                      DayMean(SelectSeq(df, LAMBDA r : Date(r.time) = first + k - 1), col)]]

RECURSIVE FracSumOver(_, _)
FracSumOver(S, y) ==
    IF S = {} THEN <<0, 1>>
    ELSE LET j == CHOOSE i \in S : TRUE
         IN FracAdd(y[j], FracSumOver(S \ {j}, y))

RollingOffByOne(y, window) ==
    [k \in 1..Len(y) |->
        LET win == {j \in Max(1, k - window)..k : y[j] # NaN}
            total == FracSumOver(win, y)
        IN IF win = {} THEN NaN ELSE Frac(total[1], total[2] * Cardinality(win))]

\* series.rolling(window=ma_days, min_periods=1).mean()
Rolling(y, window) ==
    [k \in 1..Len(y) |->
        LET win == {j \in Max(1, k - window + 1)..k : y[j] # NaN}
            total == FracSumOver(win, y)
        IN IF win = {} THEN NaN ELSE Frac(total[1], total[2] * Cardinality(win))]

\* one go.Scatter of the loop over CHANNELS
Trace(df, ch, selected_sensor, ma_days) ==
    LET daily == Resample(df, Col(ch, selected_sensor))
    IN [channel |-> ch, ma_days |-> ma_days, color |-> COLORS[ch],
        x |-> daily.x, y |-> Rolling(daily.y, ma_days)]

update_graph_swallow(d, conn, w) ==
    LET r == load_data(d, w.metric, conn)
        df1 == IF r.raised THEN <<>> ELSE r.value[1]
        df2 == IF r.raised THEN <<>> ELSE r.value[2]
        final == SortByTime(MergeOnIdTime(DateFilter(df1, w.start_date, w.end_date),
                                          RpmFilter(df2, w.rpm_bin)))
    IN [raised |-> FALSE, printed |-> r.printed, final_df |-> final,
        figure |-> [traces |-> [i \in 1..Len(CHANNELS) |->
                                  Trace(final, CHANNELS[i], w.sensor, w.ma_days)],
                    title |-> <<w.metric, w.sensor, w.rpm_bin, w.ma_days>>,
                    yrange |-> <<w.y_min, w.y_max>>]]

\* update_graph called with the inputs' values w; conn is whether the
\* store can be read during this request
update_graph(d, conn, w) ==
    LET r == load_data(d, w.metric, conn)
    IN IF r.raised
       THEN [raised |-> TRUE, printed |-> r.printed, final_df |-> <<>>,
             figure |-> NoFigure]
       ELSE LET df_filtered == DateFilter(r.value[1], w.start_date, w.end_date)
                rpm_filtered == RpmFilter(r.value[2], w.rpm_bin)
                final == SortByTime(MergeOnIdTime(df_filtered, rpm_filtered))
            IN [raised |-> FALSE, printed |-> r.printed, final_df |-> final,
                figure |-> [traces |-> [i \in 1..Len(CHANNELS) |->
                                          Trace(final, CHANNELS[i], w.sensor, w.ma_days)],
                            title |-> <<w.metric, w.sensor, w.rpm_bin, w.ma_days>>,
                            yrange |-> <<w.y_min, w.y_max>>]]

\* how many values of the 18 columns, NaN dropped, are at most v
CountAtMost(df, v) ==
    Cardinality({p \in (1..Len(df)) \X Columns :
                    df[p[1]].vals[p[2]] # NULL /\ df[p[1]].vals[p[2]] <= v})

\* np.percentile(all_values, q / 10), linear interpolation between the two
\* nearest of the sorted values
Percentile(df, q) ==
    LET values == {df[p[1]].vals[p[2]] : p \in (1..Len(df)) \X Columns} \ {NULL}
        top == CHOOSE v \in values : \A u \in values : u <= v
        n == CountAtMost(df, top)
        ValueAt(k) == CHOOSE v \in values :
                         /\ CountAtMost(df, v) >= k
                         /\ \A u \in values : CountAtMost(df, u) >= k => v <= u
        pos == (n - 1) * q
        lo == ValueAt((pos \div 1000) + 1)
        hi == ValueAt(Min((pos \div 1000) + 2, n))
    IN Frac(lo * 1000 + (hi - lo) * (pos % 1000), 1000)

\* np.percentile(all_values, [2.5, 97.5])
calculate_y_limits(df) == <<Percentile(df, 25), Percentile(df, 975)>>

\* a row's timestamp and RPM reading: 1 March 2021 in the morning or
\* 3 March 2021 in the afternoon, 10.0 or 10.5 (in quarters)
GraphProfiles ==
    {<<Time(2021, 60, 9), 40>>, <<Time(2021, 62, 15), 40>>, <<Time(2021, 62, 15), 42>>}

\* the values the model picks in the inputs
MetricInputs == {"std_dev", "rms"}
SensorInputs == {"s1", "s2"}
RpmInputs == {40, 42}
WindowInputs == 1..MaxWindow
DateInputs == {Date(Time(2021, 61, 0))}
YMinInputs == {<<0, 1>>}
YMaxInputs == {<<9, 1>>}
ChannelInputs == {<<"ch1">>, <<"ch1", "ch2">>}

ChannelNumber(ch) == CHOOSE i \in 1..3 : CHANNELS[i] = ch

\* the metric tables' values: row id of table metric, one value a column,
\* NaN in ch3s2 of the even rows
SampleValues(metric, id) ==
    [c \in Columns |->
        IF c = Col("ch3", "s2") /\ id % 2 = 0 THEN NULL
        ELSE (IF metric = "rms" THEN 10 ELSE 0) + 3 * id * id + ChannelNumber(c[1])
             + (IF c[2] = "s1" THEN 0 ELSE id)]

MetricTable(metric, ids) ==
    Table([k \in 1..Len(ids) |-> [id |-> ids[k], vals |-> SampleValues(metric, ids[k])]])

\* a store that holds every identifier in every table: prof[i] is the
\* timestamp and the RPM reading of identifier i
GraphStore(prof, present) ==
    LET ids == [i \in 1..MaxId |-> i]
    IN [main_data |-> Table([k \in 1..MaxId |-> [id |-> k, time |-> prof[k][1]]]),
        rpm |-> Table([k \in 1..MaxId |-> [id |-> k, ch1s1 |-> prof[k][2]]]),
        corruption_status |-> NoTable,
        metrics |-> [m \in AVAILABLE_METRICS |->
                        IF m \in present THEN MetricTable(m, ids) ELSE NoTable]]

GraphStores ==
    {GraphStore(prof, MetricInputs) : prof \in [1..MaxId -> GraphProfiles]}

\* stores whose rows all have the same timestamp and reading, with and
\* without the table rms
FaultStores ==
    {GraphStore([i \in 1..MaxId |-> <<Time(2021, 60, 9), 40>>], present) :
        present \in {{"std_dev"}, {"std_dev", "rms"}}}

\* the module's top level ran: load_data('std_dev'), calculate_y_limits,
\* the layout with its inputs at their initial values
InitMetrics(stores, faults) ==
    /\ app = "metrics"
    /\ db \in stores
    /\ LET r == load_data(db, "std_dev", TRUE)
       IN /\ ~r.raised
          /\ r.value[1] # <<>>
          /\ merged_df1 = r.value[1]
          /\ merged_df2 = r.value[2]
    /\ LET days == {Date(merged_df1[k].time) : k \in 1..Len(merged_df1)}
           limits == calculate_y_limits(merged_df1)
       IN widgets = [metric |-> "std_dev", sensor |-> "s1", channels |-> <<"ch1">>,
                     rpm_bin |-> 40, ma_days |-> 1,
                     y_min |-> limits[1], y_max |-> limits[2],
                     start_date |-> CHOOSE d \in days : \A e \in days : d <= e,
                     end_date |-> CHOOSE d \in days : \A e \in days : d >= e]
    /\ figure = NoFigure
    /\ request = "none"
    /\ printed = <<>>
    /\ call = NoCall
    /\ loaded = NotLoaded
    /\ final_df = <<>>
    /\ faultsLeft = faults

\* the callback of sensor-graph runs on the inputs' values w: the figure
\* is replaced when update_graph returns one, and kept when it raises
GraphRequest(w, conn) ==
    \E r \in {update_graph(db, conn, w)} :
       /\ r.raised => faultsLeft > 0
       /\ faultsLeft' = IF r.raised THEN faultsLeft - 1 ELSE faultsLeft
       /\ figure' = IF r.raised THEN figure ELSE r.figure
       /\ request' = IF r.raised THEN "failed" ELSE "ok"
       /\ printed' = r.printed
       /\ final_df' = r.final_df
       /\ call' = [fn |-> "load_data", metric |-> w.metric, conn |-> conn, calls |-> 1]

\* the page opens: the callback runs on the initial values
OpenGraphPage(conn) ==
    /\ app = "metrics"
    /\ request = "none"
    /\ GraphRequest(widgets, conn)
    /\ UNCHANGED <<app, db, merged_df1, merged_df2, widgets, loaded>>

InputValues(name) ==
    CASE name = "metric" -> MetricInputs
      [] name = "sensor" -> SensorInputs
      [] name = "rpm_bin" -> RpmInputs
      [] name = "start_date" -> DateInputs
      [] name = "end_date" -> DateInputs
      [] name = "y_min" -> YMinInputs
      [] name = "y_max" -> YMaxInputs
      [] name = "ma_days" -> WindowInputs

InputNames ==
    {"metric", "sensor", "rpm_bin", "start_date", "end_date", "y_min", "y_max", "ma_days"}

\* the user changes one Input of the callback, which runs again
ChangeInput(name, v, conn) ==
    /\ app = "metrics"
    /\ request # "none"
    /\ widgets[name] # v
    /\ widgets' = [widgets EXCEPT ![name] = v]
    /\ GraphRequest(widgets', conn)
    /\ UNCHANGED <<app, db, merged_df1, merged_df2, loaded>>

\* the user changes channel-dropdown, which is no Input of any callback
SelectChannels(c) ==
    /\ app = "metrics"
    /\ request # "none"
    /\ widgets.channels # c
    /\ widgets' = [widgets EXCEPT !.channels = c]
    /\ UNCHANGED <<app, db, merged_df1, merged_df2, figure, request, printed,
                   call, loaded, final_df, faultsLeft>>

NextMetrics ==
    \/ \E conn \in BOOLEAN : OpenGraphPage(conn)
    \/ \E name \in InputNames : \E v \in InputValues(name) : \E conn \in BOOLEAN :
          ChangeInput(name, v, conn)
    \/ \E c \in ChannelInputs : SelectChannels(c)

InitGraph == InitMetrics(GraphStores, 0)

SpecGraph == InitGraph /\ [][NextMetrics]_vars

InitFaulty == InitMetrics(FaultStores, MaxFaults)

Init == InitCorruption \/ InitFaulty

Next == NextCorruption \/ NextMetrics

Spec == Init /\ [][Next]_vars

----------------------------------------------------------------------------
(* Claims about the time-series viewer *)

GraphDone == app = "metrics" /\ request = "ok"

\* the reference reading (column ch1s1 of rpm) of an identifier
Reading(id) ==
    LET k == CHOOSE j \in 1..Len(db.rpm.rows) : db.rpm.rows[j].id = id
    IN db.rpm.rows[k].ch1s1

InDateRange(t) == widgets.start_date <= Date(t) /\ Date(t) <= widgets.end_date

\* C4: a row contributes to the plotted data only if its reference reading
\* is in [B, B + 0.5); a row with reading exactly B is included and a row
\* with reading exactly B + 0.5 is excluded.
C4_RpmBin ==
    GraphDone =>
        LET B == widgets.rpm_bin
        IN /\ \A k \in 1..Len(final_df) :
                 B <= Reading(final_df[k].id) /\ Reading(final_df[k].id) < B + 2
           /\ \A k \in 1..Len(db.main_data.rows) :
                 LET row == db.main_data.rows[k]
                 IN /\ (Reading(row.id) = B /\ InDateRange(row.time))
                          => row.id \in Ids(final_df)
                    /\ Reading(row.id) = B + 2 => row.id \notin Ids(final_df)

\* a figure drawn from a row whose reading is the bin edge B while a row
\* with reading B + 0.5 is in the date range
C4_Witness ==
    /\ GraphDone
    /\ final_df # <<>>
    /\ \E k \in 1..Len(final_df) : Reading(final_df[k].id) = widgets.rpm_bin
    /\ \E k \in 1..Len(db.main_data.rows) :
          /\ Reading(db.main_data.rows[k].id) = widgets.rpm_bin + 2
          /\ InDateRange(db.main_data.rows[k].time)

\* the values of column col, NaN dropped, of the rows of final_df on a day
SamplesOn(day, col) ==
    SelectSeq([k \in 1..Len(final_df) |->
                  IF Date(final_df[k].time) = day THEN final_df[k].vals[col] ELSE NULL],
              LAMBDA v : v # NULL)

\* C5: with window 1 the series of each channel is the daily means
\* unchanged: each day's value is the mean of that day's samples, and a day
\* with no samples stays missing.
C5_WindowOne ==
    (GraphDone /\ widgets.ma_days = 1) =>
        \A i \in 1..Len(figure.traces) :
            LET tr == figure.traces[i]
                col == Col(tr.channel, widgets.sensor)
                days == {Date(final_df[k].time) : k \in 1..Len(final_df)}
            IN /\ Len(tr.x) = Len(tr.y)
               /\ \A k \in 1..Len(tr.x) : \E a, b \in days : a <= tr.x[k] /\ tr.x[k] <= b
               /\ \A k \in 1..(Len(tr.x) - 1) : tr.x[k + 1] = tr.x[k] + 1
               /\ \A a \in days : \E k \in 1..Len(tr.x) : tr.x[k] = a
               /\ \A k \in 1..Len(tr.x) :
                     LET samples == SamplesOn(tr.x[k], col)
                     IN IF samples = <<>> THEN tr.y[k] = NaN
                        ELSE /\ tr.y[k] # NaN
                             /\ tr.y[k][1] * Len(samples) = SumSeq(samples) * tr.y[k][2]

\* a window-1 series over three days whose middle day has no sample
C5_Witness ==
    /\ GraphDone
    /\ widgets.ma_days = 1
    /\ \E i \in 1..Len(figure.traces) :
          LET y == figure.traces[i].y
          IN Len(y) = 3 /\ y[1] # NaN /\ y[2] = NaN /\ y[3] # NaN

\* C8: the figure has exactly one series for each channel selected in the
\* channel dropdown, none for an unselected channel, each in its channel's
\* colour.
C8_SelectedChannels ==
    GraphDone =>
        /\ Len(figure.traces) = Len(widgets.channels)
        /\ {figure.traces[i].channel : i \in 1..Len(figure.traces)}
              = {widgets.channels[i] : i \in 1..Len(widgets.channels)}
        /\ \A i \in 1..Len(figure.traces) :
              figure.traces[i].color = COLORS[figure.traces[i].channel]

\* a step in which the callback of sensor-graph ran
IsGraphRequest ==
    /\ app = "metrics"
    /\ widgets'.channels = widgets.channels
    /\ <<widgets, request, call, figure, printed, faultsLeft>>
          # <<widgets, request, call, figure, printed, faultsLeft>>'

\* C7: when a step of load_data fails, the error is logged and propagated:
\* load_data is called once, hands nothing to its caller, and the request
\* ends in failure with the figure left as it was.
C7_LoadFailure ==
    [][IsGraphRequest =>
         LET fails == \/ ~call'.conn
                      \/ ~db.main_data.exists
                      \/ ~db.rpm.exists
                      \/ ~db.metrics[widgets'.metric].exists
         IN /\ call'.fn = "load_data"
            /\ call'.metric = widgets'.metric
            /\ call'.calls = 1
            /\ fails => /\ request' = "failed"
                        /\ printed' = <<"Error loading data">>
                        /\ figure' = figure
                        /\ final_df' = <<>>
            /\ ~fails => request' = "ok" /\ printed' = <<>>]_vars

\* a request failed after a figure had been drawn
C7_Witness ==
    /\ app = "metrics"
    /\ request = "failed"
    /\ printed = <<"Error loading data">>
    /\ figure # NoFigure

\* the figures computed from scratch from the store and the inputs' values
FreshHeatmap ==
    update_heatmap(Merge(db.main_data.rows, db.corruption_status.rows),
                   widgets.year, widgets.sensor)

FreshGraph == update_graph(db, TRUE, widgets)

\* C9 as stated: after any sequence of input changes the figure displayed
\* is the one computed from scratch from the stored rows and the inputs'
\* current values.
C9_AsStated ==
    /\ (app = "corruption" /\ figure # NoFigure) => figure = FreshHeatmap
    /\ (app = "metrics" /\ request # "none") =>
          ~FreshGraph.raised /\ figure = FreshGraph.figure

\* C9 amended: after any sequence of input changes of which the last
\* one's recomputation completed, the figure displayed is the one computed
\* from scratch from the stored rows and the inputs' current values, by one
\* call of load_data.
C9_Recomputed ==
    /\ (app = "corruption" /\ figure # NoFigure) => figure = FreshHeatmap
    /\ GraphDone =>
          /\ ~FreshGraph.raised
          /\ figure = FreshGraph.figure
          /\ call.calls = 1
          /\ call.metric = widgets.metric

\* a figure drawn for rms and a wider window after an earlier request of
\* the session had failed
C9_Witness ==
    /\ GraphDone
    /\ faultsLeft < MaxFaults
    /\ widgets.metric = "rms"
    /\ widgets.ma_days > 1
    /\ widgets.rpm_bin = 40
    /\ final_df # <<>>

----------------------------------------------------------------------------
(* The loader on its own: load_data called on any store *)

\* all sequences of at most n members of S
RECURSIVE SeqsUpTo(_, _)
SeqsUpTo(S, n) ==
    IF n = 0 THEN {<<>>}
    ELSE LET shorter == SeqsUpTo(S, n - 1)
         IN shorter \cup {Append(s, x) : s \in shorter, x \in S}

LoadIds == {1, 2}
LoadTime == Time(2020, 10, 0)

Tables(RowSet) == {NoTable} \cup {Table(r) : r \in SeqsUpTo(RowSet, MaxRows)}

MainRows == [id : LoadIds, time : {LoadTime, BadTime}]
RpmRows == [id : LoadIds, ch1s1 : {40}]
ValueRows == [id : LoadIds, vals : {[c \in Columns |-> 1]}]

LoadStoresMetrics ==
    {[main_data |-> m, rpm |-> r, corruption_status |-> NoTable,
      metrics |-> [NoMetrics EXCEPT !["std_dev"] = v]] :
        m \in Tables(MainRows), r \in Tables(RpmRows), v \in Tables(ValueRows)}

LoadStoresCorruption ==
    {[main_data |-> m, rpm |-> r, corruption_status |-> c, metrics |-> NoMetrics] :
        m \in Tables(MainRows), r \in Tables(RpmRows), c \in Tables(ValueRows)}


InitLoad ==
    /\ \/ app = "metrics" /\ db \in LoadStoresMetrics
       \/ app = "corruption" /\ db \in LoadStoresCorruption
    /\ merged_df1 = <<>>
    /\ merged_df2 = <<>>
    /\ widgets = NoWidgets
    /\ figure = <<>>
    /\ request = "none"
    /\ printed = <<>>
    /\ call = NoCall
    /\ loaded = NotLoaded
    /\ final_df = <<>>
    /\ faultsLeft = 0

CallLoadData(metric, conn) ==
    /\ app = "metrics"
    /\ loaded' = load_data(db, metric, conn)
    /\ printed' = loaded'.printed
    /\ call' = [fn |-> "load_data", metric |-> metric, conn |-> conn, calls |-> 1]
    /\ UNCHANGED <<app, db, merged_df1, merged_df2, widgets, figure, request, final_df, faultsLeft>>

CallLoadDataCorruption(conn) ==
    /\ app = "corruption"
    /\ loaded' = load_data_corruption(db, conn)
    /\ printed' = loaded'.printed
    /\ call' = [fn |-> "load_data", metric |-> "", conn |-> conn, calls |-> 1]
    /\ UNCHANGED <<app, db, merged_df1, merged_df2, widgets, figure, request, final_df, faultsLeft>>

NextLoad ==
    \/ \E metric \in {"std_dev", "rms"}, conn \in BOOLEAN : CallLoadData(metric, conn)
    \/ \E conn \in BOOLEAN : CallLoadDataCorruption(conn)

SpecLoad == InitLoad /\ [][NextLoad]_vars

----------------------------------------------------------------------------
(* Claims about load_data *)

\* the table joined to main_data for the first result of the last call
JoinedTable ==
    IF app = "metrics" THEN db.metrics[call.metric].rows ELSE db.corruption_status.rows

LoadReturned == call.fn = "load_data" /\ ~loaded.raised

\* the result holds exactly the identifiers present on both sides
KeepsCommonIds(result, left, right) == Ids(result) = Ids(left) \cap Ids(right)

RowBound(result, left, right) == Len(result) <= Min(Len(left), Len(right))

\* C3 as stated: the join keeps only identifiers present on both sides and,
\* for every pair of tables, has at most min(rows of samples, rows of the
\* joined table) rows.
C3_AsStated ==
    LoadReturned =>
        /\ KeepsCommonIds(loaded.value[1], db.main_data.rows, JoinedTable)
        /\ KeepsCommonIds(loaded.value[2], db.main_data.rows, db.rpm.rows)
        /\ RowBound(loaded.value[1], db.main_data.rows, JoinedTable)
        /\ RowBound(loaded.value[2], db.main_data.rows, db.rpm.rows)

\* C3 amended: the join keeps exactly the identifiers present on both sides;
\* when no identifier repeats within either table, the joined result has at
\* most min(rows of samples, rows of the joined table) rows.
C3_InnerJoin ==
    LoadReturned =>
        /\ KeepsCommonIds(loaded.value[1], db.main_data.rows, JoinedTable)
        /\ KeepsCommonIds(loaded.value[2], db.main_data.rows, db.rpm.rows)
        /\ (UniqueIds(db.main_data.rows) /\ UniqueIds(JoinedTable))
              => RowBound(loaded.value[1], db.main_data.rows, JoinedTable)
        /\ (UniqueIds(db.main_data.rows) /\ UniqueIds(db.rpm.rows))
              => RowBound(loaded.value[2], db.main_data.rows, db.rpm.rows)

\* a load that joined tables without repeated identifiers, kept one
\* identifier and dropped the other
C3_Witness ==
    /\ LoadReturned
    /\ UniqueIds(db.main_data.rows) /\ UniqueIds(JoinedTable)
    /\ Len(loaded.value[1]) = 1
    /\ Len(db.main_data.rows) = 2
    /\ Len(JoinedTable) = 1

\* C6: loading std_dev when its table has no row matching any sample
\* identifier returns, without an error, an empty joined-with-metric result,
\* the joined-with-rpm result of a normal load and the metric name.
C6_EmptyMetricLoad ==
    ( /\ app = "metrics"
      /\ call.fn = "load_data" /\ call.metric = "std_dev" /\ call.conn
      /\ db.main_data.exists /\ db.rpm.exists /\ db.metrics["std_dev"].exists
      /\ TimesParse(db.main_data.rows)
      /\ Ids(db.main_data.rows) \cap Ids(db.metrics["std_dev"].rows) = {} )
    => /\ ~loaded.raised
       /\ loaded.printed = <<>>
       /\ Len(loaded.value) = 3
       /\ loaded.value[1] = <<>>
       /\ loaded.value[3] = "std_dev"
       /\ Ids(loaded.value[2]) = Ids(db.main_data.rows) \cap Ids(db.rpm.rows)
       /\ Len(loaded.value[2]) =
            Cardinality({p \in (1..Len(db.main_data.rows)) \X (1..Len(db.rpm.rows)) :
                            db.main_data.rows[p[1]].id = db.rpm.rows[p[2]].id})

\* std_dev loaded from a store whose samples and metric rows share no
\* identifier, while samples and rpm rows do
C6_Witness ==
    /\ app = "metrics"
    /\ call.fn = "load_data" /\ call.metric = "std_dev" /\ call.conn
    /\ db.main_data.rows # <<>> /\ db.metrics["std_dev"].rows # <<>>
    /\ Ids(db.main_data.rows) \cap Ids(db.metrics["std_dev"].rows) = {}
    /\ ~loaded.raised
    /\ loaded.value[1] = <<>>
    /\ loaded.value[2] # <<>>

=============================================================================
